---- MODULE Spec2Model ----
(***************************************************************************)
(* State-machine model of the real-estate QR generator.                    *)
(* The QR page (src/app/qr/page.tsx): the load effect, the two exporters   *)
(* (downloadAsImage, downloadAsPDF), the canvas composer (createQRCanvas)  *)
(* and the QR symbol builder (createQRCodeImage) with its callback chain.  *)
(* The input form (src/app/page.tsx): the field handlers, validateUrl,     *)
(* handleLogoUpload and handleGenerate with its FileReader.                *)
(*                                                                         *)
(* JavaScript runs one handler at a time to completion, so every action    *)
(* below is one handler or callback together with the promise              *)
(* continuations (microtasks) it triggers, up to the next suspension.      *)
(***************************************************************************)
EXTENDS Integers, Sequences, FiniteSets, TLC

\* Number of export calls (button clicks) explored in one page session.
MaxExports == 2

VARIABLES
    page,             \* the route shown: "home" (the form) or "qr"
    home,             \* the useState values of the Home component
    gen,              \* the handleGenerate call in progress or last run
    dataKey,          \* searchParams.get("dataKey") || ""
    storage,          \* what localStorage holds under the QR page's key
    isLoading,        \* useState(true)
    qrData,           \* useState<QRData | null>(null): <<>> is null, <<r>> a record
    isDownloading,    \* useState(""): "", "image" or "pdf"
    storageReads,     \* number of localStorage.getItem calls made by the effect
    calls,            \* the export calls, by call number
    nextCall,         \* number of the next export call
    canvases,         \* every canvas element created, in creation order
    encoderRequests   \* every QRCode.toDataURL request made

vars == <<page, home, gen, dataKey, storage, isLoading, qrData, isDownloading,
          storageReads, calls, nextCall, canvases, encoderRequests>>

\* The input form's part of the state.
homeVars == <<page, home, gen>>

CallIds == 1..MaxExports

(***************************************************************************)
(* Rational arithmetic for the millimetre geometry of the PDF page         *)
(* (JavaScript numbers; the values involved are exact fractions).          *)
(***************************************************************************)
RECURSIVE Gcd(_, _)
Gcd(a, b) == IF b = 0 THEN a ELSE Gcd(b, a % b)

Abs(n) == IF n < 0 THEN -n ELSE n

\* The fraction n/d in lowest terms with a positive denominator.
Rat(n, d) ==
    LET g == Gcd(Abs(n), Abs(d))
        s == IF d < 0 THEN -1 ELSE 1
    IN  <<(s * n) \div g, (s * d) \div g>>

RInt(n)    == <<n, 1>>
RMul(a, b) == Rat(a[1] * b[1], a[2] * b[2])
RDiv(a, b) == Rat(a[1] * b[2], a[2] * b[1])
RAdd(a, b) == Rat(a[1] * b[2] + b[1] * a[2], a[2] * b[2])
RSub(a, b) == Rat(a[1] * b[2] - b[1] * a[2], a[2] * b[2])
RLe(a, b)  == a[1] * b[2] <= b[1] * a[2]
RLt(a, b)  == a[1] * b[2] < b[1] * a[2]
RMin(a, b) == IF RLe(a, b) THEN a ELSE b
RMax(a, b) == IF RLe(a, b) THEN b ELSE a
RZero      == <<0, 1>>

(***************************************************************************)
(* The stored record and the page's load effect.                           *)
(***************************************************************************)
\* interface QRData: each field is a string; "" is the empty (falsy) string.
QRData ==
    [details : {"", "d"}, license : {"", "l"},
     officeName : {"", "n"}, officeLogo : {"", "logo"}]

\* What localStorage.getItem(dataKey) can give: null, text that is not JSON,
\* the JSON text "null", or the JSON text of a record.
StoredValues ==
    {[tag |-> "none", value |-> <<>>], [tag |-> "garbage", value |-> <<>>],
     [tag |-> "json", value |-> <<>>]}
    \cup {[tag |-> "json", value |-> <<r>>] : r \in QRData}

\* A variant of the test that forgets the license.
IncompleteDetailsOnly(q) == q = <<>> \/ q[1].details = ""

\* if (!qrData?.details || !qrData?.license): the incomplete-data test.
Incomplete(q) == q = <<>> \/ q[1].details = "" \/ q[1].license = ""

\* Which of the three returns of QRContent renders.
View ==
    IF isLoading THEN "loading"
    ELSE IF Incomplete(qrData) THEN "incomplete"
    ELSE "qr"

\* A variant with setIsLoading(false) at the end of the try block and no
\* finally: text that is not JSON leaves the page loading.
LoadEffectNoFinally ==
    /\ page = "qr"
    /\ isLoading
    /\ storageReads < 3
    /\ IF dataKey # ""
       THEN /\ storageReads' = storageReads + 1
            /\ qrData' = IF storage.tag = "json" THEN storage.value ELSE qrData
            /\ isLoading' = (storage.tag = "garbage")
       ELSE /\ isLoading' = FALSE
            /\ UNCHANGED <<storageReads, qrData>>
    /\ UNCHANGED <<dataKey, storage, isDownloading, calls, nextCall, canvases,
                   encoderRequests, homeVars>>

\* useEffect(() => {...}, [dataKey]): runs once after the first render.
LoadEffect ==
    /\ page = "qr"
    /\ isLoading
    /\ isLoading' = FALSE
    /\ IF dataKey # ""
       THEN /\ storageReads' = storageReads + 1
            /\ qrData' = IF storage.tag = "json" THEN storage.value ELSE qrData
       ELSE UNCHANGED <<storageReads, qrData>>
    /\ UNCHANGED <<dataKey, storage, isDownloading, calls, nextCall, canvases,
                   encoderRequests, homeVars>>

(***************************************************************************)
(* Export calls.  A call is one click on a download button: the exporter,  *)
(* the createQRCanvas call it awaits and the createQRCodeImage calls       *)
(* inside that.  pc is the suspension point the call is waiting at.        *)
(***************************************************************************)
IdleCall ==
    [kind |-> "", pc |-> "idle", phase |-> "", currentY |-> 0,
     canvas |-> 0, qrCanvas |-> 0,
     qr |-> [value |-> "", size |-> 0, showLogo |-> FALSE],
     trace |-> <<>>, failures |-> {}, caught |-> "",
     officeLogoLoaded |-> FALSE,
     settled |-> [details |-> 0, license |-> 0],
     composeCalls |-> 0, result |-> "", alert |-> "", download |-> <<>>]

\* The working state of the handler that is running: the call c and its
\* record s, the qrData its closure sees, the canvases, the encoder's requests
\* and the busy flag.
Ctx(c) ==
    [c |-> c, s |-> calls[c], q |-> qrData, cv |-> canvases,
     er |-> encoderRequests, busy |-> isDownloading]

\* The handler's assignments, written back when it returns or suspends.
Commit(ctx) ==
    /\ calls' = [calls EXCEPT ![ctx.c] = ctx.s]
    /\ canvases' = ctx.cv
    /\ encoderRequests' = ctx.er
    /\ isDownloading' = ctx.busy
    /\ UNCHANGED <<dataKey, storage, isLoading, qrData, storageReads, homeVars>>

\* One entry of the call's step log: the step and the cursor it used.
Tr(ctx, step, y) ==
    [ctx EXCEPT !.s.trace = Append(@, [step |-> step, y |-> y])]

\* One drawing operation on canvas id (fillRect, drawImage, fillText, fill).
Op(ctx, id, op, x, y, w, h) ==
    [ctx EXCEPT !.cv[id].ops =
        Append(@, [op |-> op, x |-> x, y |-> y, w |-> w, h |-> h, by |-> ctx.c])]

\* The element a reused (cached) canvas would be: the first one ever made.
createElementCached(cv) == 1

\* document.createElement("canvas"): a new element each time.
createElement(cv) == Len(cv) + 1

\* canvas.width = w; canvas.height = h on the element createElement gave.
SizeCanvas(ctx, id, role, w, h) ==
    IF id > Len(ctx.cv)
    THEN [ctx EXCEPT !.cv =
            Append(@, [owner |-> ctx.c, role |-> role, w |-> w, h |-> h,
                       ops |-> <<>>])]
    ELSE [ctx EXCEPT !.cv[id].w = w, !.cv[id].h = h]

\* const width = 1200; const height = 1600;
width == 1200
height == 1600
\* let currentY = 100;
TopMargin == 100
\* const logoSize = 120;
logoSize == 120
\* const licenseSectionHeight = 200;
licenseSectionHeight == 200
\* createQRCodeImage(qrData.license, 150, false)
licenseQRSize == 150

\* A variant that sizes the details QR at half the canvas width.
mainQRSizeHalfWidth == (width * 50) \div 100

\* const mainQRSize = Math.floor(width * 0.75);
mainQRSize == (width * 75) \div 100

\* The options createQRCodeImage hands to QRCode.toDataURL.
EncoderOptions(size) ==
    [width |-> size, margin |-> 1,
     color |-> [dark |-> "#000000", light |-> "#FFFFFF"]]

\* createQRCodeImage(value, size, showLogo) up to the encoder's callback.
createQRCodeImage(ctx, phase, value, size, showLogo) ==
    LET c1 == Tr(ctx, IF phase = "details" THEN "encodeDetails"
                      ELSE "encodeLicense", ctx.s.currentY)
    IN  [c1 EXCEPT
            !.s.pc = "qrEncode",
            !.s.phase = phase,
            !.s.qr = [value |-> value, size |-> size, showLogo |-> showLogo],
            !.er = @ \cup {[by |-> ctx.c, phase |-> phase, value |-> value,
                            options |-> EncoderOptions(size)]}]

\* A variant that encodes the license URL in the details QR.
StartDetailsQRSwapped(ctx) ==
    createQRCodeImage(ctx, "details", ctx.q[1].license, mainQRSize, TRUE)

\* A variant that asks for the details QR without the logo.
StartDetailsQRNoLogo(ctx) ==
    createQRCodeImage(ctx, "details", ctx.q[1].details, mainQRSize, FALSE)

\* The start of the details QR: createQRCodeImage(qrData.details, mainQRSize, true).
StartDetailsQR(ctx) ==
    createQRCodeImage(ctx, "details", ctx.q[1].details, mainQRSize, TRUE)

\* A variant that writes the office label and name without moving the cursor.
OfficeNameBlockNoAdvance(ctx) ==
    IF ctx.q[1].officeName # ""
    THEN LET y0 == ctx.s.currentY
             c1 == Op(Tr(ctx, "officeLabel", y0), ctx.s.canvas,
                      "officeLabel", width \div 2, y0, 0, 0)
         IN  Op(Tr(c1, "officeName", y0), ctx.s.canvas,
                "officeName", width \div 2, y0, 0, 0)
    ELSE ctx

\* if (qrData.officeName) { label; currentY += 40; name; currentY += 80 }
OfficeNameBlock(ctx) ==
    IF ctx.q[1].officeName # ""
    THEN LET y0 == ctx.s.currentY
             c1 == Op(Tr(ctx, "officeLabel", y0), ctx.s.canvas,
                      "officeLabel", width \div 2, y0, 0, 0)
             y1 == y0 + 40
             c2 == Op(Tr(c1, "officeName", y1), ctx.s.canvas,
                      "officeName", width \div 2, y1, 0, 0)
         IN  [c2 EXCEPT !.s.currentY = y1 + 80]
    ELSE ctx

\* After the office logo has loaded: draw it and advance the cursor.
DrawOfficeLogo(ctx) ==
    LET y0 == ctx.s.currentY
        c1 == Op(Tr(ctx, "drawOfficeLogo", y0), ctx.s.canvas, "officeLogo",
                 width \div 2 - logoSize \div 2, y0, logoSize, logoSize)
    IN  [c1 EXCEPT !.s.currentY = y0 + logoSize + 30]

\* The cursor at which the details QR is drawn for a record with the given
\* office name and office logo (the logo having loaded): the branding block
\* of createQRCanvas run from the top margin.
DetailsQRY(officeName, officeLogo) ==
    LET q0 == <<[details |-> "d", license |-> "l",
                 officeName |-> officeName, officeLogo |-> officeLogo]>>
        c0 == [c |-> 1, s |-> [IdleCall EXCEPT !.canvas = 1,
                                                !.currentY = TopMargin],
               q |-> q0,
               cv |-> <<[owner |-> 1, role |-> "compose", w |-> width,
                         h |-> height, ops |-> <<>>]>>,
               er |-> {}, busy |-> ""]
        c1 == IF officeLogo # "" THEN DrawOfficeLogo(c0) ELSE c0
    IN  OfficeNameBlock(c1).s.currentY

\* A variant that keeps the cursor outside the function, so that a
\* composition starts where the previous one stopped.
InitialCursorCarried(ctx) ==
    IF ctx.c > 1 THEN calls[ctx.c - 1].currentY ELSE TopMargin

\* let currentY = 100: a local of createQRCanvas, set anew in every call.
InitialCursor(ctx) == TopMargin

\* createQRCanvas from its first line to its first suspension.
createQRCanvas(ctx) ==
    LET id == createElement(ctx.cv)
        c0 == SizeCanvas(ctx, id, "compose", width, height)
        c1 == [c0 EXCEPT !.s.canvas = id,
                         !.s.composeCalls = @ + 1,
                         !.s.currentY = InitialCursor(ctx)]
        c2 == Op(c1, id, "background", 0, 0, width, height)
    IN  IF ctx.q[1].officeName # "" \/ ctx.q[1].officeLogo # ""
        THEN IF ctx.q[1].officeLogo # ""
             THEN [Tr(c2, "loadOfficeLogo", c1.s.currentY) EXCEPT
                      !.s.pc = "officeLogoLoad"]
             ELSE StartDetailsQR(OfficeNameBlock(c2))
        ELSE StartDetailsQR(c2)

\* A variant that fills the license panel before writing the details caption.
AfterDetailsQRPanelFirst(ctx) ==
    LET y0 == ctx.s.currentY
        c1 == Op(Tr(ctx, "drawDetailsQR", y0), ctx.s.canvas, "detailsQR",
                 width \div 2 - mainQRSize \div 2, y0, mainQRSize, mainQRSize)
        y1 == y0 + mainQRSize + 50
        y2 == y1 + 80 + 30
        c2 == Op(Tr(c1, "licensePanel", y2), ctx.s.canvas, "licensePanel",
                 50, y2, width - 100, licenseSectionHeight)
        c3 == Op(Tr(c2, "detailsCaption", y1), ctx.s.canvas,
                 "detailsCaption", width \div 2, y1, 0, 0)
        c4 == [c3 EXCEPT !.s.currentY = y2]
    IN  createQRCodeImage(c4, "license", ctx.q[1].license, licenseQRSize, FALSE)

\* createQRCanvas after the details QR resolved: draw it, the caption and the
\* license panel, then start the license QR.
AfterDetailsQR(ctx) ==
    LET y0 == ctx.s.currentY
        c1 == Op(Tr(ctx, "drawDetailsQR", y0), ctx.s.canvas, "detailsQR",
                 width \div 2 - mainQRSize \div 2, y0, mainQRSize, mainQRSize)
        y1 == y0 + mainQRSize + 50
        c2 == Op(Tr(c1, "detailsCaption", y1), ctx.s.canvas,
                 "detailsCaption", width \div 2, y1, 0, 0)
        y2 == y1 + 80 + 30
        c3 == Op(Tr(c2, "licensePanel", y2), ctx.s.canvas, "licensePanel",
                 50, y2, width - 100, licenseSectionHeight)
        c4 == [c3 EXCEPT !.s.currentY = y2]
    IN  createQRCodeImage(c4, "license", ctx.q[1].license, licenseQRSize, FALSE)

\* createQRCanvas after the license QR resolved: draw it and the caption and
\* return the canvas.
AfterLicenseQR(ctx) ==
    LET licenseSectionY == ctx.s.currentY
        licenseCenterY == licenseSectionY + licenseSectionHeight \div 2
        c1 == Op(Tr(ctx, "drawLicenseQR", licenseCenterY - 75), ctx.s.canvas,
                 "licenseQR", 150, licenseCenterY - 75, 150, 150)
        c2 == Op(Tr(c1, "licenseCaption", licenseCenterY), ctx.s.canvas,
                 "licenseCaption", width - 150, licenseCenterY, 0, 0)
    IN  [c2 EXCEPT !.s.result = "canvas"]

(***************************************************************************)
(* The exporters' endings.                                                 *)
(***************************************************************************)
\* jsPDF({orientation: "portrait", unit: "mm", format: "a4"}): the page size
\* that pdf.internal.pageSize reports, in millimetres.
pdfWidth == 210
pdfHeight == 297

\* A variant that fits the larger of the two page ratios.
RatioMax(imgWidth, imgHeight) ==
    RMul(RMax(Rat(pdfWidth, imgWidth), Rat(pdfHeight, imgHeight)), Rat(95, 100))

\* Math.min(pdfWidth / imgWidth, pdfHeight / imgHeight) * 0.95
Ratio(imgWidth, imgHeight) ==
    RMul(RMin(Rat(pdfWidth, imgWidth), Rat(pdfHeight, imgHeight)), Rat(95, 100))

\* The image downloadAsPDF adds to the one page that new jsPDF() starts with.
PdfPlacement(imgWidth, imgHeight) ==
    LET ratio == Ratio(imgWidth, imgHeight)
        w == RMul(RInt(imgWidth), ratio)
        h == RMul(RInt(imgHeight), ratio)
    IN  [x |-> RDiv(RSub(RInt(pdfWidth), w), RInt(2)),
         y |-> RDiv(RSub(RInt(pdfHeight), h), RInt(2)),
         w |-> w, h |-> h]

\* An error event delivered to the call: an image's error event, the
\* encoder's err, a throw of canvas.toDataURL.
Failed(ctx, event) == [ctx EXCEPT !.s.failures = @ \cup {event}]

\* resolve(...) or reject(...) of the promise of the createQRCodeImage call
\* that is running: counted per QR.
Settle(ctx) == [ctx EXCEPT !.s.settled[ctx.s.phase] = @ + 1]

\* A variant whose catch has no finally after it.
CatchWithoutFinally(ctx, reason) ==
    [ctx EXCEPT !.s.caught = reason,
                !.s.alert = ctx.s.kind,
                !.s.pc = "done"]

\* catch (error) { alert(...) } finally { setIsDownloading("") }
CatchAndFinally(ctx, reason) ==
    [ctx EXCEPT !.s.caught = reason,
                !.s.alert = ctx.s.kind,
                !.s.pc = "done",
                !.busy = ""]

\* A promise awaited by createQRCanvas rejects: createQRCanvas rethrows and
\* never returns a canvas; the exporter's catch and finally run.
Reject(ctx, reason) ==
    CatchAndFinally([ctx EXCEPT !.s.result = "rejected"], reason)

\* The exporter after createQRCanvas returned: serialise the canvas
\* (canvas.toDataURL, which may throw), trigger the download, then finally.
FinishExport(ctx, serialised) ==
    IF ~serialised
    THEN CatchAndFinally(Failed(ctx, "serialise"), "serialise")
    ELSE LET cvs == ctx.cv[ctx.s.canvas]
             at == PdfPlacement(cvs.w, cvs.h)
         IN  [ctx EXCEPT
                !.s.download =
                    IF ctx.s.kind = "image"
                    THEN <<[file |-> "png", canvas |-> ctx.s.canvas,
                            pages |-> 0, x |-> RZero, y |-> RZero,
                            w |-> RZero, h |-> RZero]>>
                    ELSE <<[file |-> "pdf", canvas |-> ctx.s.canvas,
                            pages |-> 1, x |-> at.x, y |-> at.y,
                            w |-> at.w, h |-> at.h]>>,
                !.s.pc = "done",
                !.busy = ""]

\* A variant in which the buttons ignore the busy flag.
ButtonNeverDisabled == FALSE

\* disabled={!!isDownloading} on both download buttons.  React re-renders
\* after the click handler's setIsDownloading and before the next event.
ButtonDisabled == isDownloading # ""

\* The body shared by downloadAsImage and downloadAsPDF.
StartExport(c, kind) ==
    LET ctx == [Ctx(c) EXCEPT !.s.kind = kind]
    IN  IF ctx.q = <<>>
        THEN Commit([ctx EXCEPT !.s.alert = "nodata", !.s.pc = "done"])
        ELSE Commit(createQRCanvas([ctx EXCEPT !.busy = kind]))

\* A click on a download button: the button is rendered and enabled.
Clickable(c) ==
    /\ View = "qr"
    /\ ~ButtonDisabled
    /\ c = nextCall
    /\ c \in CallIds

downloadAsImage(c) ==
    /\ Clickable(c)
    /\ nextCall' = nextCall + 1
    /\ StartExport(c, "image")

downloadAsPDF(c) ==
    /\ Clickable(c)
    /\ nextCall' = nextCall + 1
    /\ StartExport(c, "pdf")

(***************************************************************************)
(* The callbacks a call waits for.                                         *)
(***************************************************************************)
At(c, pc) == c \in CallIds /\ calls[c].pc = pc

\* logoImg.onload of the office logo: resolve(true), then createQRCanvas goes on.
OfficeLogoOnLoad(c) ==
    /\ At(c, "officeLogoLoad")
    /\ UNCHANGED nextCall
    /\ Commit(StartDetailsQR(OfficeNameBlock(DrawOfficeLogo(
            [Ctx(c) EXCEPT !.s.officeLogoLoaded = TRUE]))))

\* logoImg.onerror of the office logo: reject(new Error(...)).
OfficeLogoOnError(c) ==
    /\ At(c, "officeLogoLoad")
    /\ UNCHANGED nextCall
    /\ Commit(Reject(Failed(Ctx(c), "officeLogo"), "officeLogo"))

\* A variant that drops the encoder's err and loads the image anyway.
EncoderResultIgnoringErr(ctx, err) == [ctx EXCEPT !.s.pc = "qrImgLoad"]

\* A variant without the return after reject(err): the image is loaded anyway.
EncoderResultNoReturn(ctx, err) ==
    [(IF err THEN Settle(ctx) ELSE ctx) EXCEPT !.s.pc = "qrImgLoad"]

\* (err, url) => { if (err) { reject(err); return; } ... qrImg.src = url; }
EncoderResult(ctx, err) ==
    IF err THEN Reject(Settle(ctx), "encode")
    ELSE [ctx EXCEPT !.s.pc = "qrImgLoad"]

\* The callback QRCode.toDataURL calls, with or without an error.
EncoderCallback(c) ==
    /\ At(c, "qrEncode")
    /\ UNCHANGED nextCall
    /\ \E err \in BOOLEAN :
          Commit(EncoderResult(IF err THEN Failed(Ctx(c), "encode") ELSE Ctx(c),
                               err))

\* qrImg.onload: a canvas of the QR's size, the QR drawn on it and, with
\* showLogo, the white badge; then the app logo or the final image loads.
QrImgLoaded(ctx) ==
    LET size == ctx.s.qr.size
        id == createElement(ctx.cv)
        c0 == SizeCanvas(ctx, id, ctx.s.phase, size, size)
        c1 == Op([c0 EXCEPT !.s.qrCanvas = id], id, "qr", 0, 0, size, size)
        logoContainerSize == size \div 5
    IN  IF ctx.s.qr.showLogo
        THEN [Op(c1, id, "badge",
                 size \div 2 - logoContainerSize \div 2,
                 size \div 2 - logoContainerSize \div 2,
                 logoContainerSize, logoContainerSize)
              EXCEPT !.s.pc = "appLogoLoad"]
        ELSE [c1 EXCEPT !.s.pc = "finalImgLoad"]

QrImgOnLoad(c) ==
    /\ At(c, "qrImgLoad")
    /\ UNCHANGED nextCall
    /\ Commit(QrImgLoaded(Ctx(c)))

\* qrImg.onerror: reject(new Error("Failed to load QR code")).
QrImgOnError(c) ==
    /\ At(c, "qrImgLoad")
    /\ UNCHANGED nextCall
    /\ Commit(Reject(Settle(Failed(Ctx(c), "qrImg")), "qrImg"))

\* logoImg.onload of the app logo: draw it inside the badge.  The inner area
\* is logoContainerSize less 8% padding on each side; its position and size
\* are kept in hundredths of a pixel (151.2 px is 15120).
LogoImgOnLoad(c) ==
    /\ At(c, "appLogoLoad")
    /\ UNCHANGED nextCall
    /\ LET ctx == Ctx(c)
           size == ctx.s.qr.size
           area100 == (size * 100) \div 5 - 2 * ((size * 8) \div 5)
       IN  Commit([Op(ctx, ctx.s.qrCanvas, "appLogo",
                      (size * 100) \div 2 - area100 \div 2,
                      (size * 100) \div 2 - area100 \div 2,
                      area100, area100)
                   EXCEPT !.s.pc = "finalImgLoad"])

\* A variant that treats a failed app logo as a failed QR image.
AppLogoFailedRejects(ctx) == Reject(ctx, "appLogo")

\* The body of logoImg.onerror: nothing more is drawn, and the canvas as it
\* is (QR and badge) becomes the final image.
AppLogoFailed(ctx) == [ctx EXCEPT !.s.pc = "finalImgLoad"]

\* logoImg.onerror of the app logo: the QR is used without the logo.
LogoImgOnError(c) ==
    /\ At(c, "appLogoLoad")
    /\ UNCHANGED nextCall
    /\ Commit(AppLogoFailed(Failed(Ctx(c), "appLogo")))

\* finalImg.onload: resolve(finalImg); createQRCanvas draws the QR and goes
\* on to the license QR or returns the canvas to the exporter.
FinalImgOnLoad(c) ==
    /\ At(c, "finalImgLoad")
    /\ UNCHANGED nextCall
    /\ IF calls[c].phase = "details"
       THEN Commit(AfterDetailsQR(Settle(Ctx(c))))
       ELSE \E serialised \in BOOLEAN :
                Commit(FinishExport(AfterLicenseQR(Settle(Ctx(c))), serialised))

\* finalImg.onerror: reject(new Error("Failed to create QR code image")).
FinalImgOnError(c) ==
    /\ At(c, "finalImgLoad")
    /\ UNCHANGED nextCall
    /\ Commit(Reject(Settle(Failed(Ctx(c), "finalImg")), "finalImg"))

(***************************************************************************)
(* The input form (src/app/page.tsx).  Texts are tokens: "d" and "l" stand *)
(* for absolute URLs such as "https://example.com/property-details", "bad" *)
(* for a non-empty text the URL constructor rejects, "" for the empty      *)
(* text.                                                                   *)
(***************************************************************************)
\* The texts new URL(text) parses.
AbsoluteUrls == {"d", "l"}

\* A variant that accepts every text.
validateUrlAny(url) == TRUE

\* validateUrl: true when new URL(url) does not throw.
validateUrl(url) == url \in AbsoluteUrls

\* What the user can type into the two URL fields and the name field, and
\* the files the file input can deliver: none, one within 2MB, one above.
DetailsTexts == {"", "bad", "d"}
LicenseTexts == {"", "bad", "l"}
NameTexts == {"", "n"}
Files == {"", "small", "big"}

\* The useState initial values of Home; officeLogo "" is null.
HomeInit ==
    [propertyDetails |-> "", propertyLicense |-> "", officeName |-> "",
     officeLogo |-> "", logoPreview |-> "",
     errors |-> [details |-> "", license |-> ""], isGenerating |-> FALSE]

\* No handleGenerate call has run: reader is the FileReader's state, qrData
\* the record the call is building, alert the last alert the form showed.
IdleGen ==
    [pc |-> "idle", reader |-> "none",
     qrData |-> [details |-> "", license |-> "", officeName |-> "",
                 officeLogo |-> ""],
     alert |-> ""]

\* onChange of the office name input: setOfficeName(e.target.value).
setOfficeName ==
    /\ page = "home"
    /\ \E v \in NameTexts :
        /\ v # home.officeName
        /\ home' = [home EXCEPT !.officeName = v]
    /\ UNCHANGED <<page, gen, dataKey, storage, isLoading, qrData,
                   isDownloading, storageReads, calls, nextCall, canvases,
                   encoderRequests>>

\* handleLogoUpload: no file does nothing, a file above 2MB is refused with
\* an alert, any other file is kept with a preview URL.
handleLogoUpload ==
    /\ page = "home"
    /\ \E file \in Files :
        /\ file # ""
        /\ IF file = "big"
           THEN /\ gen' = [gen EXCEPT !.alert = "size"]
                /\ UNCHANGED home
           ELSE /\ home.officeLogo # file
                /\ home' = [home EXCEPT !.officeLogo = file, !.logoPreview = "blob"]
                /\ UNCHANGED gen
    /\ UNCHANGED <<page, dataKey, storage, isLoading, qrData, isDownloading,
                   storageReads, calls, nextCall, canvases, encoderRequests>>

\* onChange of the details input: setPropertyDetails, and the field's error
\* message is cleared.
setPropertyDetails ==
    /\ page = "home"
    /\ \E v \in DetailsTexts :
        /\ v # home.propertyDetails
        /\ home' = [home EXCEPT !.propertyDetails = v, !.errors.details = ""]
    /\ UNCHANGED <<page, gen, dataKey, storage, isLoading, qrData,
                   isDownloading, storageReads, calls, nextCall, canvases,
                   encoderRequests>>

\* onChange of the license input: setPropertyLicense, and the field's error
\* message is cleared.
setPropertyLicense ==
    /\ page = "home"
    /\ \E v \in LicenseTexts :
        /\ v # home.propertyLicense
        /\ home' = [home EXCEPT !.propertyLicense = v, !.errors.license = ""]
    /\ UNCHANGED <<page, gen, dataKey, storage, isLoading, qrData,
                   isDownloading, storageReads, calls, nextCall, canvases,
                   encoderRequests>>

\* disabled={!propertyDetails || !propertyLicense || isGenerating}
GenerateDisabled ==
    home.propertyDetails = "" \/ home.propertyLicense = "" \/ home.isGenerating

\* The error message handleGenerate computes for one URL field.
FieldError(url) ==
    IF url = "" THEN "required"
    ELSE IF ~validateUrl(url) THEN "invalid"
    ELSE ""

\* The end of handleGenerate's try block for record q, with h and g the form
\* state and the call so far: localStorage.setItem under a fresh key, then
\* router.push to the QR page with that key, which unmounts Home and drops
\* its state; when setItem throws, the catch alerts and resets isGenerating.
StoreAndNavigate(h, g, q, stored) ==
    IF stored
    THEN /\ storage' = [tag |-> "json", value |-> <<q>>]
         /\ dataKey' = "k"
         /\ page' = "qr"
         /\ home' = HomeInit
         /\ gen' = [g EXCEPT !.pc = "done", !.qrData = q, !.alert = ""]
    ELSE /\ home' = [h EXCEPT !.isGenerating = FALSE]
         /\ gen' = [g EXCEPT !.pc = "done", !.qrData = q, !.alert = "error"]
         /\ UNCHANGED <<storage, dataKey, page>>

\* handleGenerate, up to its await of the FileReader promise when a logo
\* file is set, and to its end otherwise.
handleGenerate ==
    /\ page = "home"
    /\ ~GenerateDisabled
    /\ LET newErrors == [details |-> FieldError(home.propertyDetails),
                         license |-> FieldError(home.propertyLicense)]
           h == [home EXCEPT !.errors = newErrors]
           q == [details |-> home.propertyDetails,
                 license |-> home.propertyLicense,
                 officeName |-> home.officeName, officeLogo |-> ""]
       IN  IF newErrors.details = "" /\ newErrors.license = ""
           THEN IF home.officeLogo # ""
                THEN /\ home' = [h EXCEPT !.isGenerating = TRUE]
                     /\ gen' = [pc |-> "reading", reader |-> "loading",
                                qrData |-> q, alert |-> ""]
                     /\ UNCHANGED <<storage, dataKey, page>>
                ELSE \E stored \in BOOLEAN :
                        StoreAndNavigate([h EXCEPT !.isGenerating = TRUE],
                                         [gen EXCEPT !.reader = "none"],
                                         q, stored)
           ELSE /\ home' = h
                /\ UNCHANGED <<gen, storage, dataKey, page>>
    /\ UNCHANGED <<isLoading, qrData, isDownloading, storageReads, calls,
                   nextCall, canvases, encoderRequests>>

\* reader.onload: the promise resolves with the data URL and handleGenerate
\* continues with the record it built before the await.
ReaderOnLoad ==
    /\ page = "home"
    /\ gen.pc = "reading"
    /\ gen.reader = "loading"
    /\ \E stored \in BOOLEAN :
        StoreAndNavigate(home, [gen EXCEPT !.reader = "loaded"],
                         [gen.qrData EXCEPT !.officeLogo = "logo"], stored)
    /\ UNCHANGED <<isLoading, qrData, isDownloading, storageReads, calls,
                   nextCall, canvases, encoderRequests>>

\* The reader's error event (the file cannot be read any more): no onerror
\* handler is set and the promise has no reject, so nothing of handleGenerate
\* runs.
ReaderOnError ==
    /\ page = "home"
    /\ gen.pc = "reading"
    /\ gen.reader = "loading"
    /\ gen' = [gen EXCEPT !.reader = "failed"]
    /\ UNCHANGED <<page, home, dataKey, storage, isLoading, qrData,
                   isDownloading, storageReads, calls, nextCall, canvases,
                   encoderRequests>>

(***************************************************************************)
(* The specifications.  Spec is the QR page opened on any key and any      *)
(* stored value; AppSpec is the application from the input form on.        *)
(***************************************************************************)
Init ==
    /\ page = "qr"
    /\ home = HomeInit
    /\ gen = IdleGen
    /\ dataKey \in {"", "k"}
    /\ storage \in StoredValues
    /\ dataKey = "" => storage.tag = "none"
    /\ isLoading = TRUE
    /\ qrData = <<>>
    /\ isDownloading = ""
    /\ storageReads = 0
    /\ calls = [c \in CallIds |-> IdleCall]
    /\ nextCall = 1
    /\ canvases = <<>>
    /\ encoderRequests = {}

Next ==
    \/ LoadEffect
    \/ \E c \in CallIds : downloadAsImage(c)
    \/ \E c \in CallIds : downloadAsPDF(c)
    \/ \E c \in CallIds : OfficeLogoOnLoad(c)
    \/ \E c \in CallIds : OfficeLogoOnError(c)
    \/ \E c \in CallIds : EncoderCallback(c)
    \/ \E c \in CallIds : QrImgOnLoad(c)
    \/ \E c \in CallIds : QrImgOnError(c)
    \/ \E c \in CallIds : LogoImgOnLoad(c)
    \/ \E c \in CallIds : LogoImgOnError(c)
    \/ \E c \in CallIds : FinalImgOnLoad(c)
    \/ \E c \in CallIds : FinalImgOnError(c)

Spec == Init /\ [][Next]_vars

\* The callbacks call c can be waiting for.
Callback(c) ==
    \/ OfficeLogoOnLoad(c) \/ OfficeLogoOnError(c)
    \/ EncoderCallback(c)
    \/ QrImgOnLoad(c) \/ QrImgOnError(c)
    \/ LogoImgOnLoad(c) \/ LogoImgOnError(c)
    \/ FinalImgOnLoad(c) \/ FinalImgOnError(c)

\* The application started on the input form, with nothing stored.
AppInit ==
    /\ page = "home"
    /\ home = HomeInit
    /\ gen = IdleGen
    /\ dataKey = ""
    /\ storage = [tag |-> "none", value |-> <<>>]
    /\ isLoading = TRUE
    /\ qrData = <<>>
    /\ isDownloading = ""
    /\ storageReads = 0
    /\ calls = [c \in CallIds |-> IdleCall]
    /\ nextCall = 1
    /\ canvases = <<>>
    /\ encoderRequests = {}

HomeNext ==
    \/ setOfficeName
    \/ handleLogoUpload
    \/ setPropertyDetails
    \/ setPropertyLicense
    \/ handleGenerate
    \/ ReaderOnLoad
    \/ ReaderOnError

AppNext == HomeNext \/ Next

AppSpec == AppInit /\ [][AppNext]_vars

\* The page under the scheduling the browser gives: React runs the effect
\* after the first render, and every image load and encoder call that was
\* started fires one of its callbacks.
FairSpec ==
    /\ Spec
    /\ WF_vars(LoadEffect)
    /\ \A c \in CallIds : WF_vars(Callback(c))

\* The application under the same scheduling; a FileReader that was started
\* fires its load event or its error event.
FairAppSpec ==
    /\ AppSpec
    /\ WF_vars(ReaderOnLoad \/ ReaderOnError)
    /\ WF_vars(LoadEffect)
    /\ \A c \in CallIds : WF_vars(Callback(c))

(***************************************************************************)
(* Properties.                                                             *)
(***************************************************************************)
InFlight(c) == calls[c].pc \notin {"idle", "done"}
Ended(c) == calls[c].pc = "done"

\* The value the load effect takes from storage: null or a record.
LoadedValue ==
    IF dataKey # "" /\ storage.tag = "json" THEN storage.value ELSE <<>>

\* C1: for a record with non-empty details and license whose office logo is
\* present but fires the image error event, createQRCanvas still returns a
\* canvas and the export ends in a download and not in an error alert.
C1_OfficeLogoFailureDegrades ==
    \A c \in CallIds :
        (Ended(c) /\ qrData # <<>> /\ qrData[1].details # ""
            /\ qrData[1].license # "" /\ qrData[1].officeLogo # ""
            /\ calls[c].failures = {"officeLogo"})
        => /\ calls[c].result = "canvas"
           /\ calls[c].alert = ""
           /\ calls[c].download # <<>>

\* C2: every request createQRCodeImage makes of the encoder on the export path
\* asks for error-correction level High and a module margin of 1.
C2_EncoderLevelHighMargin1 ==
    \A r \in encoderRequests :
        /\ r.options.margin = 1
        /\ "errorCorrectionLevel" \in DOMAIN r.options
        /\ r.options.errorCorrectionLevel = "H"

\* C3: when the encoder reports an error for either payload, the composition
\* is rejected without a canvas, the exporter shows its error alert, triggers
\* no download, and ends with the busy flag reset to empty.
C3_EncodingFailureAborts ==
    \A c \in CallIds :
        "encode" \in calls[c].failures
        => /\ Ended(c)
           /\ calls[c].result = "rejected"
           /\ calls[c].alert = calls[c].kind
           /\ calls[c].alert \in {"image", "pdf"}
           /\ calls[c].download = <<>>
           /\ (nextCall = c + 1 => isDownloading = "")

C3_Witness ==
    \E c \in CallIds :
        /\ "encode" \in calls[c].failures
        /\ calls[c].phase = "license"
        /\ calls[c].kind = "pdf"
        /\ Ended(c)

\* C4, in every state: at most one export is in flight, and while one is, the
\* busy flag holds its kind and neither exporter can be started.
C4_OneInFlight ==
    /\ Cardinality({c \in CallIds : InFlight(c)}) <= 1
    /\ \A c \in CallIds :
          InFlight(c)
          => /\ isDownloading = calls[c].kind
             /\ isDownloading # ""
             /\ \A d \in CallIds :
                   ~ENABLED downloadAsImage(d) /\ ~ENABLED downloadAsPDF(d)

\* C4, in every step: an export in flight is not cancelled: it stays the same
\* call, keeps its canvas and the steps it has taken, and leaves flight only
\* by ending, which resets the busy flag.
C4_NotCancelled ==
    \A c \in CallIds :
        InFlight(c)
        => /\ calls'[c].kind = calls[c].kind
           /\ calls'[c].canvas = calls[c].canvas
           /\ calls'[c].pc # "idle"
           /\ Len(calls'[c].trace) >= Len(calls[c].trace)
           /\ SubSeq(calls'[c].trace, 1, Len(calls[c].trace)) = calls[c].trace
           /\ (calls'[c].pc = "done" => isDownloading' = "")

\* C4: at most one export operation is in flight at any time; while one is,
\* the busy flag is non-empty and no second export of either kind can be
\* started; and the export in flight is never cancelled.
C4_SingleExport == [](C4_OneInFlight) /\ [][C4_NotCancelled]_vars

C4_Witness ==
    \E c \in CallIds :
        /\ InFlight(c)
        /\ nextCall \in CallIds
        /\ View = "qr"
        /\ calls[c].pc = "appLogoLoad"

\* C5: for a loaded record (or none) whose details or license is missing or
\* empty, once loading ends the incomplete-data view shows, and no
\* composition is ever started: no createQRCanvas call, no canvas, no export.
C5_IncompleteNeverComposes ==
    (\/ LoadedValue = <<>>
     \/ LoadedValue[1].details = ""
     \/ LoadedValue[1].license = "")
    => /\ (~isLoading => View = "incomplete")
       /\ \A c \in CallIds : calls[c] = IdleCall
       /\ canvases = <<>>
       /\ encoderRequests = {}
       /\ \A c \in CallIds :
             ~ENABLED downloadAsImage(c) /\ ~ENABLED downloadAsPDF(c)

C5_Witness ==
    /\ ~isLoading
    /\ qrData # <<>>
    /\ qrData[1].details = "d"
    /\ qrData[1].license = ""
    /\ View = "incomplete"

\* The drawing operations named op on call c's composed canvas.
OpsOf(c, op) ==
    LET ops == canvases[calls[c].canvas].ops
    IN  {ops[i] : i \in {j \in 1..Len(ops) : ops[j].op = op}}

Composing(c) == calls[c].canvas # 0

\* C6: for a record with empty officeName and empty officeLogo the composed
\* canvas is exactly 1200x1600, the details QR is a square of side 900 drawn
\* at x = 150 and y = 100, the details caption is at y = 1050 and the license
\* panel's top edge is at y = 1160, strictly below the caption.
C6_NoBrandingLayout ==
    \A c \in CallIds :
        (Composing(c) /\ qrData[1].officeName = "" /\ qrData[1].officeLogo = "")
        => /\ canvases[calls[c].canvas].w = 1200
           /\ canvases[calls[c].canvas].h = 1600
           /\ \A o \in OpsOf(c, "detailsQR") :
                 o.x = 150 /\ o.y = 100 /\ o.w = 900 /\ o.h = 900
                 /\ o.x + o.w + o.x = canvases[calls[c].canvas].w
           /\ \A o \in OpsOf(c, "detailsCaption") : o.y = 1050
           /\ \A o \in OpsOf(c, "licensePanel") :
                 o.y = 1160 /\ \A k \in OpsOf(c, "detailsCaption") : o.y > k.y
           /\ (calls[c].result = "canvas"
               => \A op \in {"detailsQR", "detailsCaption", "licensePanel"} :
                     Cardinality(OpsOf(c, op)) = 1)

C6_Witness ==
    \E c \in CallIds :
        /\ qrData # <<>>
        /\ qrData[1].officeName = "" /\ qrData[1].officeLogo = ""
        /\ calls[c].result = "canvas"
        /\ OpsOf(c, "licensePanel") # {}

\* The branding elements of a record: its office name and its office logo.
BrandingOf(officeName, officeLogo) ==
    (IF officeName # "" THEN {"name"} ELSE {})
    \cup (IF officeLogo # "" THEN {"logo"} ELSE {})

\* C7: the y at which the details QR is drawn is strictly monotonic in the
\* branding present: it is the layout's offset for the record's branding, and
\* for every two branding states (none, name only, logo only, both) where one
\* has a strict superset of the other's elements, the superset's offset is
\* strictly greater.
C7_OffsetMonotonic ==
    \A c \in CallIds :
        Composing(c)
        => \A o \in OpsOf(c, "detailsQR") :
              /\ o.y = DetailsQRY(qrData[1].officeName, qrData[1].officeLogo)
              /\ \A n1 \in {"", "n"}, l1 \in {"", "logo"} :
                    LET mine == BrandingOf(qrData[1].officeName,
                                           qrData[1].officeLogo)
                        other == BrandingOf(n1, l1)
                    IN  /\ (other \subseteq mine /\ other # mine)
                           => DetailsQRY(n1, l1) < o.y
                        /\ (mine \subseteq other /\ other # mine)
                           => DetailsQRY(n1, l1) > o.y

C7_Witness ==
    \E c \in CallIds :
        /\ Composing(c)
        /\ qrData[1].officeName # "" /\ qrData[1].officeLogo # ""
        /\ calls[c].officeLogoLoaded
        /\ \E o \in OpsOf(c, "detailsQR") : o.y > DetailsQRY("", "")

\* C8: the document exporter places the 1200x1600 bitmap on the 210x297 page
\* scaled by min(210/1200, 297/1600) * 0.95, at x = (210 - w)/2 and
\* y = (297 - h)/2: the image keeps the ratio 3:4, lies inside the page, has
\* equal left and right and equal top and bottom margins, on exactly one page.
C8_PdfPlacement ==
    \A c \in CallIds :
        (calls[c].download # <<>> /\ calls[c].kind = "pdf")
        => LET d == calls[c].download[1]
               pw == RInt(210)
               ph == RInt(297)
               scale == RMul(RMin(Rat(210, 1200), Rat(297, 1600)),
                             Rat(95, 100))
           IN  /\ d.file = "pdf"
               /\ d.pages = 1
               /\ d.w = RMul(RInt(1200), scale)
               /\ d.h = RMul(RInt(1600), scale)
               /\ d.x = RDiv(RSub(pw, d.w), RInt(2))
               /\ d.y = RDiv(RSub(ph, d.h), RInt(2))
               /\ RMul(d.w, RInt(4)) = RMul(d.h, RInt(3))
               /\ RLe(RZero, d.x) /\ RLe(RZero, d.y)
               /\ RLe(RAdd(d.x, d.w), pw) /\ RLe(RAdd(d.y, d.h), ph)
               /\ d.x = RSub(pw, RAdd(d.x, d.w))
               /\ d.y = RSub(ph, RAdd(d.y, d.h))

C8_Witness ==
    \E c \in CallIds :
        /\ calls[c].kind = "pdf"
        /\ calls[c].download # <<>>
        /\ calls[c].download[1].x = Rat(21, 4)
        /\ calls[c].download[1].w = Rat(399, 2)

\* The steps of one composition in the order the layout gives them.
StepOrder ==
    <<"loadOfficeLogo", "drawOfficeLogo", "officeLabel", "officeName",
      "encodeDetails", "drawDetailsQR", "detailsCaption", "licensePanel",
      "encodeLicense", "drawLicenseQR", "licenseCaption">>

\* The steps a record calls for: the logo steps with a logo, the name steps
\* with a name.
StepsFor(q) ==
    LET Wanted(s) ==
            /\ s \in {"loadOfficeLogo", "drawOfficeLogo"} => q.officeLogo # ""
            /\ s \in {"officeLabel", "officeName"} => q.officeName # ""
    IN  SelectSeq(StepOrder, Wanted)

\* How far below a step's y the next step's y lies.
StepGap(step) ==
    CASE step = "drawOfficeLogo" -> 150
      [] step = "officeLabel"    -> 40
      [] step = "officeName"     -> 80
      [] step = "drawDetailsQR"  -> 950
      [] step = "detailsCaption" -> 110
      [] step = "licensePanel"   -> 0
      [] step = "encodeLicense"  -> 25
      [] step = "drawLicenseQR"  -> 75
      [] OTHER                   -> 0

\* C9: within one createQRCanvas call the steps occur strictly in the order
\* office logo, office label and name, details QR encode and draw, details
\* caption, license panel, license QR encode and draw, license caption; while
\* an asynchronous step is pending nothing later has started, and every step
\* uses the cursor left by all the steps before it.
C9_StepOrder ==
    \A c \in CallIds :
        Composing(c)
        => LET tr == calls[c].trace
               want == StepsFor(qrData[1])
           IN  /\ Len(tr) <= Len(want)
               /\ \A i \in 1..Len(tr) : tr[i].step = want[i]
               /\ Len(tr) >= 1 /\ tr[1].y = 100
               /\ \A i \in 2..Len(tr) :
                     tr[i].y = tr[i - 1].y + StepGap(tr[i - 1].step)
               /\ calls[c].pc = "officeLogoLoad"
                  => tr[Len(tr)].step = "loadOfficeLogo"
               /\ calls[c].pc \in {"qrEncode", "qrImgLoad", "appLogoLoad",
                                   "finalImgLoad"}
                  => tr[Len(tr)].step =
                        (IF calls[c].phase = "details" THEN "encodeDetails"
                         ELSE "encodeLicense")
               /\ calls[c].result = "canvas" => Len(tr) = Len(want)

C9_Witness ==
    \E c \in CallIds :
        /\ calls[c].result = "canvas"
        /\ Len(calls[c].trace) = Len(StepOrder)

\* C10: every export call invokes createQRCanvas exactly once; every
\* createQRCanvas call and every createQRCodeImage call creates its own canvas;
\* no canvas is drawn on by more than one call or shared between two exports.
C10_PrivateCanvases ==
    /\ \A c \in CallIds :
          calls[c].pc # "idle"
          => /\ calls[c].composeCalls = 1
             /\ calls[c].canvas \in 1..Len(canvases)
             /\ canvases[calls[c].canvas].owner = c
             /\ canvases[calls[c].canvas].role = "compose"
             /\ Cardinality({i \in 1..Len(canvases) :
                    canvases[i].owner = c /\ canvases[i].role = "compose"}) = 1
             /\ \A role \in {"details", "license"} :
                   Cardinality({i \in 1..Len(canvases) :
                       canvases[i].owner = c /\ canvases[i].role = role}) <= 1
             /\ calls[c].qrCanvas # calls[c].canvas
             /\ calls[c].download # <<>>
                => calls[c].download[1].canvas = calls[c].canvas
    /\ \A c, d \in CallIds :
          (c # d /\ calls[c].pc # "idle" /\ calls[d].pc # "idle")
          => calls[c].canvas # calls[d].canvas
    /\ \A i \in 1..Len(canvases) :
          \A j \in 1..Len(canvases[i].ops) :
              canvases[i].ops[j].by = canvases[i].owner

C10_Witness ==
    /\ \A c \in CallIds : calls[c].result = "canvas"
    /\ Len(canvases) = 3 * MaxExports
    /\ \E c \in CallIds : calls[c].kind = "image"
    /\ \E c \in CallIds : calls[c].kind = "pdf"

\* The names of the operations drawn on canvas i, in order.
OpNames(i) == [j \in 1..Len(canvases[i].ops) |-> canvases[i].ops[j].op]

\* C11: when the app logo fails to load in createQRCodeImage with showLogo,
\* the white badge is already drawn, no logo is drawn, and the promise is not
\* rejected for it: the call goes on to the final image; an export whose only
\* failure is the app logo ends with a canvas and a download and no alert.
C11_AppLogoFailureDegrades ==
    \A c \in CallIds :
        "appLogo" \in calls[c].failures
        => /\ calls[c].caught # "appLogo"
           /\ \E i \in 1..Len(canvases) :
                 /\ canvases[i].owner = c /\ canvases[i].role = "details"
                 /\ OpNames(i) = <<"qr", "badge">>
           /\ calls[c].failures = {"appLogo"}
              => /\ calls[c].result # "rejected"
                 /\ calls[c].alert = ""
                 /\ Ended(c)
                    => calls[c].result = "canvas" /\ calls[c].download # <<>>

C11_Witness ==
    \E c \in CallIds :
        /\ calls[c].failures = {"appLogo"}
        /\ Ended(c)
        /\ calls[c].download # <<>>

\* C12: in every composition the details QR is made with the logo overlay
\* (badge drawn, app logo load attempted) and the license QR without it: with
\* showLogo false no badge is drawn, the app logo is never requested, and the
\* encoded symbol is returned as it is at the size asked for, 150.
C12_LogoOnlyOnDetails ==
    /\ \A i \in 1..Len(canvases) :
          /\ canvases[i].role = "details"
             => /\ canvases[i].w = 900 /\ canvases[i].h = 900
                /\ Len(OpNames(i)) >= 2
                /\ SubSeq(OpNames(i), 1, 2) = <<"qr", "badge">>
                /\ canvases[i].ops[2].w = 180 /\ canvases[i].ops[2].x = 360
          /\ canvases[i].role = "license"
             => /\ canvases[i].w = 150 /\ canvases[i].h = 150
                /\ OpNames(i) = <<"qr">>
                /\ canvases[i].ops[1].w = 150 /\ canvases[i].ops[1].h = 150
                /\ canvases[i].ops[1].x = 0 /\ canvases[i].ops[1].y = 0
    /\ \A c \in CallIds :
          /\ calls[c].phase = "details" => calls[c].qr.showLogo
          /\ calls[c].phase = "license"
             => /\ ~calls[c].qr.showLogo
                /\ calls[c].qr.size = 150
                /\ calls[c].pc # "appLogoLoad"
          /\ (calls[c].phase = "details" /\ calls[c].pc = "finalImgLoad")
             => \/ "appLogo" \in calls[c].failures
                \/ "appLogo" \in {canvases[calls[c].qrCanvas].ops[j].op :
                                     j \in 1..Len(canvases[calls[c].qrCanvas].ops)}
          /\ \A o \in (IF Composing(c) THEN OpsOf(c, "licenseQR") ELSE {}) :
                o.w = 150 /\ o.h = 150

C12_Witness ==
    \E c \in CallIds :
        /\ calls[c].result = "canvas"
        /\ \E i, j \in 1..Len(canvases) :
              /\ canvases[i].owner = c /\ canvases[i].role = "details"
              /\ OpNames(i) = <<"qr", "badge", "appLogo">>
              /\ canvases[j].owner = c /\ canvases[j].role = "license"
              /\ OpNames(j) = <<"qr">>

\* The operations of a composed canvas that make up the layout.
LayoutOps ==
    {"background", "officeLogo", "officeLabel", "officeName", "detailsQR",
     "detailsCaption", "licensePanel", "licenseQR", "licenseCaption"}

\* Where an operation was drawn, without who drew it.
Place(o) == <<o.x, o.y, o.w, o.h>>

\* C13: composition is deterministic: two createQRCanvas runs on the same
\* record with the same asset-load outcomes give canvases of the same
\* dimensions and the same layout offsets, whichever exporter runs them; the
\* offsets depend only on whether officeName and officeLogo are present.
C13_Deterministic ==
    /\ \A c, d \in CallIds :
          (Composing(c) /\ Composing(d))
          => /\ canvases[calls[c].canvas].w = canvases[calls[d].canvas].w
             /\ canvases[calls[c].canvas].h = canvases[calls[d].canvas].h
             /\ \A op \in LayoutOps :
                   \A o1 \in OpsOf(c, op), o2 \in OpsOf(d, op) :
                       Place(o1) = Place(o2)
             /\ (calls[c].result = "canvas" /\ calls[d].result = "canvas")
                => [i \in 1..Len(calls[c].trace) |-> calls[c].trace[i]]
                   = [i \in 1..Len(calls[d].trace) |-> calls[d].trace[i]]
    /\ \A c \in CallIds :
          Composing(c)
          => \A o \in OpsOf(c, "detailsQR") :
                LET nm == IF qrData[1].officeName # "" THEN "any name" ELSE ""
                    lg == IF qrData[1].officeLogo # "" THEN "any logo" ELSE ""
                IN  o.y = DetailsQRY(nm, lg)

C13_Witness ==
    \E c, d \in CallIds :
        /\ calls[c].kind = "image" /\ calls[d].kind = "pdf"
        /\ calls[c].result = "canvas" /\ calls[d].result = "canvas"
        /\ qrData[1].officeName # "" /\ qrData[1].officeLogo # ""
        /\ OpsOf(c, "licenseQR") # {} /\ OpsOf(d, "licenseQR") # {}

\* The payloads call c has handed to the encoder for the QR of a region.
PayloadsOf(c, phase) ==
    {r.value : r \in {e \in encoderRequests : e.by = c /\ e.phase = phase}}

\* C14: the payload handed to the encoder for the details QR region is exactly
\* the record's details URL and the one for the license QR region exactly the
\* record's license URL; each region drawn holds the symbol of its own URL.
C14_PayloadsAreTheUrls ==
    /\ \A r \in encoderRequests :
          /\ r.phase \in {"details", "license"}
          /\ r.phase = "details" => r.value = qrData[1].details
          /\ r.phase = "license" => r.value = qrData[1].license
          /\ r.value # ""
    /\ \A c \in CallIds :
          /\ InFlight(c) /\ calls[c].phase # ""
             => calls[c].qr.value =
                   (IF calls[c].phase = "details" THEN qrData[1].details
                    ELSE qrData[1].license)
          /\ Composing(c)
             => /\ OpsOf(c, "detailsQR") # {}
                   => PayloadsOf(c, "details") = {qrData[1].details}
                /\ OpsOf(c, "licenseQR") # {}
                   => PayloadsOf(c, "license") = {qrData[1].license}

C14_Witness ==
    \E c \in CallIds :
        /\ calls[c].result = "canvas"
        /\ qrData[1].details = "d" /\ qrData[1].license = "l"
        /\ PayloadsOf(c, "details") = {"d"}
        /\ PayloadsOf(c, "license") = {"l"}
        /\ OpsOf(c, "licenseQR") # {}

\* C17: for every combination of branding (none, name only, logo only, name
\* and logo) every element createQRCanvas draws lies inside the 1200x1600
\* canvas; in particular the license panel's bottom edge and the license QR's
\* bottom edge are at most 1600.
C17_InsideCanvas ==
    \A c \in CallIds :
        Composing(c)
        => \A op \in LayoutOps :
              \A o \in OpsOf(c, op) :
                  /\ 0 <= o.x /\ o.x + o.w <= 1200
                  /\ 0 <= o.y /\ o.y + o.h <= 1600

\* The createQRCodeImage call of c for a region has been made.
QRStarted(c, phase) ==
    \E r \in encoderRequests : r.by = c /\ r.phase = phase

\* It still waits for one of its callbacks.
QRWaiting(c, phase) ==
    /\ calls[c].phase = phase
    /\ calls[c].pc \in {"qrEncode", "qrImgLoad", "appLogoLoad", "finalImgLoad"}

\* C18: each createQRCodeImage call settles its promise exactly once along
\* every callback path (each image firing one of load and error): never
\* twice, not while a callback is still due, and once when none is.
C18_SettledOnce ==
    \A c \in CallIds :
        \A phase \in {"details", "license"} :
            /\ calls[c].settled[phase] <= 1
            /\ ~QRStarted(c, phase) => calls[c].settled[phase] = 0
            /\ QRWaiting(c, phase) => calls[c].settled[phase] = 0
            /\ (QRStarted(c, phase) /\ ~QRWaiting(c, phase))
               => calls[c].settled[phase] = 1

C18_Witness ==
    \E c \in CallIds :
        /\ calls[c].settled = [details |-> 1, license |-> 1]
        /\ calls[c].caught = "finalImg"
        /\ "appLogo" \in calls[c].failures

\* C19, in every state: storage is read at most once (and not at all without
\* a dataKey), the effect can run whatever storage holds, and once loading
\* has ended the page shows the QR view exactly for a loaded record with
\* non-empty details and license, and the incomplete-data view otherwise.
C19_LoadState ==
    /\ storageReads <= 1
    /\ dataKey = "" => storageReads = 0
    /\ isLoading => ENABLED LoadEffect
    /\ ~isLoading
       => /\ View \in {"qr", "incomplete"}
          /\ View = "qr"
             <=> /\ LoadedValue # <<>>
                 /\ LoadedValue[1].details # ""
                 /\ LoadedValue[1].license # ""

\* C19: the loading state always ends: for every dataKey and stored value the
\* load effect sets isLoading to false, for good, reading storage at most
\* once, and the view then follows the loaded record.
C19_LoadingEnds ==
    /\ <>(~isLoading)
    /\ [][~isLoading => ~isLoading']_vars
    /\ [](C19_LoadState)

C19_Witness ==
    /\ ~isLoading
    /\ dataKey # ""
    /\ storage.tag = "garbage"
    /\ storageReads = 1
    /\ View = "incomplete"

\* C16, in every state: the busy flag is set exactly while an export is in
\* flight, and with none in flight a further export can be started.
C16_BusyWhileInFlight ==
    /\ \A c \in CallIds : InFlight(c) => isDownloading = calls[c].kind
    /\ (\A c \in CallIds : ~InFlight(c))
       => /\ isDownloading = ""
          /\ (View = "qr" /\ nextCall \in CallIds)
             => /\ ENABLED downloadAsImage(nextCall)
                /\ ENABLED downloadAsPDF(nextCall)

\* C16, in every step: an export leaves flight with the busy flag reset, and
\* only one of its own callbacks moves it: no timer ends a pending load.
C16_EndsByCallback ==
    \A c \in CallIds :
        InFlight(c)
        => /\ calls'[c].pc = "done" => isDownloading' = ""
           /\ calls'[c] # calls[c] => Callback(c)

\* C16: provided every image load and encoder call fires one of its
\* callbacks, every started export finishes and resets the busy flag, on
\* success and on every failure, so that a further export can be started;
\* nothing but those callbacks ends an export, so a load that never fires
\* leaves it pending with the busy flag set.
C16_ExportsFinish ==
    /\ (\E c \in CallIds : InFlight(c))
          ~> (\A c \in CallIds : ~InFlight(c) /\ (c < nextCall => Ended(c)))
    /\ [](C16_BusyWhileInFlight)
    /\ [][C16_EndsByCallback]_vars

C16_Witness ==
    /\ MaxExports >= 2
    /\ calls[1].caught = "serialise"
    /\ calls[1].alert # ""
    /\ InFlight(2)

\* Both URLs of record r are non-empty texts the URL constructor parses.
ValidRecord(r) ==
    /\ r.details # "" /\ r.details \in AbsoluteUrls
    /\ r.license # "" /\ r.license \in AbsoluteUrls

\* C15, in every state: localStorage holds nothing or a record with valid
\* URLs, the QR page is shown exactly when a record was written, the record
\* the page loaded is the stored one, and every export call and every encoder
\* request works on a record with valid URLs.
C15_OnlyValidatedRecords ==
    /\ storage.tag \in {"none", "json"}
    /\ storage.tag = "json"
       => storage.value # <<>> /\ ValidRecord(storage.value[1])
    /\ (page = "qr") = (storage.tag = "json")
    /\ (page = "qr") = (dataKey # "")
    /\ qrData # <<>> => qrData = storage.value
    /\ \A c \in CallIds :
          calls[c].pc # "idle" => qrData # <<>> /\ ValidRecord(qrData[1])
    /\ \A r \in encoderRequests : r.value \in AbsoluteUrls

\* C15, in every step: handleGenerate clicked on a form whose URLs are not
\* both valid sets an error message and writes nothing, does not navigate and
\* does not start generating; storage and route change only in a step of
\* handleGenerate (at the click or after the logo was read), together, and the
\* record written has valid URLs.
C15_GenerateStep ==
    LET valid == /\ home.propertyDetails # "" /\ home.propertyDetails \in AbsoluteUrls
                 /\ home.propertyLicense # "" /\ home.propertyLicense \in AbsoluteUrls
        captured == [details |-> home.propertyDetails,
                     license |-> home.propertyLicense,
                     officeName |-> home.officeName, officeLogo |-> ""]
    IN  /\ (handleGenerate /\ ~valid)
           => /\ UNCHANGED <<storage, dataKey, page, gen>>
              /\ ~home'.isGenerating
              /\ home'.errors.details # "" \/ home'.errors.license # ""
        /\ (handleGenerate /\ gen'.pc = "reading")
           => valid /\ gen'.qrData = captured
        /\ (storage' # storage \/ page' # page \/ dataKey' # dataKey)
           => /\ \/ handleGenerate /\ valid /\ storage'.value = <<captured>>
                 \/ ReaderOnLoad /\ ValidRecord(gen.qrData)
                                 /\ storage'.value
                                    = <<[gen.qrData EXCEPT !.officeLogo = "logo"]>>
              /\ storage.tag = "none" /\ storage'.tag = "json"
              /\ page = "home" /\ page' = "qr"
              /\ dataKey = "" /\ dataKey' # ""

\* C15: starting from the input form, input validity errors never reach the
\* QR page: every record stored, loaded and composed has non-empty URLs that
\* passed validateUrl, and handleGenerate writes and navigates only for a
\* form with two valid URLs and writes nothing and stays otherwise.
C15_InputValidity ==
    /\ [](C15_OnlyValidatedRecords)
    /\ [][C15_GenerateStep]_vars

C15_Witness ==
    /\ page = "qr"
    /\ gen.reader = "loaded"
    /\ qrData # <<>>
    /\ qrData[1].officeLogo = "logo"
    /\ qrData[1].officeName = "n"
    /\ calls[1].pc = "done"
    /\ calls[1].composeCalls > 0
    /\ encoderRequests # {}

\* C20: with the FileReader firing its load or its error event, every
\* handleGenerate call that set isGenerating ends by navigating to the QR
\* page or by an error alert with isGenerating reset, also when reading the
\* logo file fails.
C20_GenerateEnds ==
    (page = "home" /\ home.isGenerating)
        ~> \/ page = "qr"
           \/ gen.alert = "error" /\ ~home.isGenerating
====
